---- MODULE Spec2Model ----
(***************************************************************************)
(* Path tracer (src/main.cpp, src/color.h, src/material.h,                 *)
(* src/path_visualizer.h): the render loop of main, the recursive          *)
(* ray_color with its call stack made explicit, the materials, the pixel   *)
(* writer, the path recorder and the OBJ exporter.                         *)
(*                                                                         *)
(* Numbers.  A double is modelled by an exact rational [n, d] in lowest    *)
(* terms (d > 0); the inputs are chosen so that every value the program    *)
(* computes is such a rational.  write_color, whose intermediate values    *)
(* can be NaN, an infinity or an irrational square root, uses the tagged   *)
(* values of the section "doubles of write_color".                         *)
(***************************************************************************)
EXTENDS Integers, Sequences, FiniteSets, TLC

(***************************************************************************)
(* Bounds of the model.  main.cpp fixes image_width = 600,                 *)
(* samples_per_pixel = 200, max_depth = 10 and uses 20 for the number of   *)
(* pre-selected positions, the recorder capacity and the recording limit;  *)
(* the model keeps the code and shrinks these values.                      *)
(***************************************************************************)
image_width == 2
samples_per_pixel == 2
max_depth == 3
NumPaths == 3
StreamLen == 4

aspect_ratio == 1
image_height == image_width \div aspect_ratio

(***************************************************************************)
(* double arithmetic on exact rationals                                    *)
(***************************************************************************)
Abs(x) == IF x < 0 THEN -x ELSE x

RECURSIVE GCD(_, _)
GCD(a, b) == IF b = 0 THEN a ELSE GCD(b, a % b)

Rat(n, d) ==
    LET g == GCD(Abs(n), d)
    IN  [n |-> n \div g, d |-> d \div g]

Zero == Rat(0, 1)
One == Rat(1, 1)
Half == Rat(1, 2)

RAdd(a, b) == Rat(a.n * b.d + b.n * a.d, a.d * b.d)
RSub(a, b) == Rat(a.n * b.d - b.n * a.d, a.d * b.d)
RMul(a, b) == Rat(a.n * b.n, a.d * b.d)
RDiv(a, b) == IF b.n > 0 THEN Rat(a.n * b.d, a.d * b.n)
                         ELSE Rat(-(a.n * b.d), a.d * (-b.n))
\* a < b: integer parts first, then the fractional parts (keeps the products small)
RLt(a, b) ==
    LET fa == a.n \div a.d
        fb == b.n \div b.d
    IN  \/ fa < fb
        \/ fa = fb /\ (a.n % a.d) * b.d < (b.n % b.d) * a.d
RLe(a, b) == a = b \/ RLt(a, b)
fabs(a) == [n |-> Abs(a.n), d |-> a.d]

\* sqrt of a rational that is a perfect square (the only case the geometry
\* of the model produces: 1 - z*z with z in {-1, 0})
sqrt(a) == CHOOSE q \in {Rat(p, a.d) : p \in 0..a.n} \cup {Rat(a.n, p) : p \in 1..a.d} :
              RMul(q, q) = a

\* static_cast<int> of a finite double: truncation toward zero
static_cast_int(a) == IF a.n >= 0 THEN a.n \div a.d ELSE -((-a.n) \div a.d)

(***************************************************************************)
(* vec3 (color and point3 are aliases of vec3, color.h:8)                  *)
(***************************************************************************)
vec3(x, y, z) == <<x, y, z>>
color(r, g, b) == vec3(Rat(r, 1), Rat(g, 1), Rat(b, 1))
black == color(0, 0, 0)

vec3_add(u, v) == <<RAdd(u[1], v[1]), RAdd(u[2], v[2]), RAdd(u[3], v[3])>>
vec3_sub(u, v) == <<RSub(u[1], v[1]), RSub(u[2], v[2]), RSub(u[3], v[3])>>
vec3_mul(u, v) == <<RMul(u[1], v[1]), RMul(u[2], v[2]), RMul(u[3], v[3])>>
vec3_scale(t, v) == <<RMul(t, v[1]), RMul(t, v[2]), RMul(t, v[3])>>
length_squared(v) == RAdd(RMul(v[1], v[1]), RAdd(RMul(v[2], v[2]), RMul(v[3], v[3])))

ray(origin, direction) == [orig |-> origin, dir |-> direction]
ray_at(r, t) == vec3_add(r.orig, vec3_scale(t, r.dir))

(***************************************************************************)
(* Random source (rtweekend.h).  The stream is a periodic sequence of      *)
(* StreamLen doubles from [0, 1), fixed before the program starts; its     *)
(* state rng is the number of draws made so far.                           *)
(***************************************************************************)
RandomDoubles == {Zero, Half}
Streams == [1..StreamLen -> RandomDoubles]

random_double(strm, n) == strm[(n % StreamLen) + 1]
\* random_double(min, max) = min + (max - min) * random_double()
random_double_range(lo, hi, xi) == RAdd(lo, RMul(RSub(hi, lo), xi))

(***************************************************************************)
(* Materials (material.h).  A material is [kind, albedo, emit_color].      *)
(***************************************************************************)
lambertian(a) == [kind |-> "lambertian", albedo |-> a, emit_color |-> black]
diffuse_light(c) == [kind |-> "diffuse_light", albedo |-> black, emit_color |-> c]

\* material::emitted (black) and diffuse_light::emitted (emit_color)
emitted(mat) == IF mat.kind = "diffuse_light" THEN mat.emit_color ELSE color(0, 0, 0)

\* cos and sin of an angle given in half-turns (a = h * pi), exact at the
\* multiples of pi/2 the model draws
cos_pi(h) == CASE h = Zero -> One
               [] h = Half -> Zero
               [] h = One -> Rat(-1, 1)
               [] h = Rat(3, 2) -> Zero
sin_pi(h) == CASE h = Zero -> Zero
               [] h = Half -> One
               [] h = One -> Zero
               [] h = Rat(3, 2) -> Rat(-1, 1)

\* lambertian::random_unit_vector from its two draws xi1 (azimuth), xi2 (z)
random_unit_vector(xi1, xi2) ==
    LET a == random_double_range(Zero, Rat(2, 1), xi1)   \* in units of pi
        z == random_double_range(Rat(-1, 1), One, xi2)
        r == sqrt(RSub(One, RMul(z, z)))
    IN  vec3(RMul(r, cos_pi(a)), RMul(r, sin_pi(a)), z)

\* lambertian::near_zero, s = 1e-8
near_zero(v) ==
    LET s == Rat(1, 100000000)
    IN  RLt(fabs(v[1]), s) /\ RLt(fabs(v[2]), s) /\ RLt(fabs(v[3]), s)

\* no fallback for a degenerate direction
lambertian_scatter_nofallback(mat, r_in, rec, xi1, xi2) ==
    [ok |-> TRUE, attenuation |-> mat.albedo,
     scattered |-> ray(rec.p, vec3_add(rec.normal, random_unit_vector(xi1, xi2))),
     draws |-> 2]

\* lambertian::scatter; the two draws it makes are xi1, xi2
lambertian_scatter(mat, r_in, rec, xi1, xi2) ==
    LET sum == vec3_add(rec.normal, random_unit_vector(xi1, xi2))
        scatter_direction == IF near_zero(sum) THEN rec.normal ELSE sum
    IN  [ok |-> TRUE, attenuation |-> mat.albedo,
         scattered |-> ray(rec.p, scatter_direction), draws |-> 2]

\* diffuse_light::scatter: attenuation and scattered are left untouched
diffuse_light_scatter(mat, r_in, rec) ==
    [ok |-> FALSE, attenuation |-> black, scattered |-> r_in, draws |-> 0]

\* virtual dispatch of material::scatter
scatter(mat, r_in, rec, xi1, xi2) ==
    IF mat.kind = "lambertian" THEN lambertian_scatter(mat, r_in, rec, xi1, xi2)
                               ELSE diffuse_light_scatter(mat, r_in, rec)

(***************************************************************************)
(* Geometry (aarect.h, hittable_list.h; spec sections 4.1).  A rectangle   *)
(* is [axis, k, a0, a1, b0, b1, mat]: the plane coordinate axis = k,       *)
(* bounded on the two other axes (in increasing axis order).               *)
(***************************************************************************)
\* +infinity as an upper bound of a ray parameter: 1/0, compared only by equality
infinity == [n |-> 1, d |-> 0]
t_min == Rat(1, 1000)

OtherAxes(axis) == CASE axis = 1 -> <<2, 3>> [] axis = 2 -> <<1, 3>> [] axis = 3 -> <<1, 2>>
axis_normal(axis) == [c \in 1..3 |-> IF c = axis THEN One ELSE Zero]

NoHit == [hit |-> FALSE]

rect_hit(rc, r, tmin, tmax) ==
    IF r.dir[rc.axis] = Zero THEN NoHit
    ELSE LET t == RDiv(RSub(rc.k, r.orig[rc.axis]), r.dir[rc.axis])
             p == ray_at(r, t)
             o == OtherAxes(rc.axis)
         IN  IF RLt(t, tmin) \/ (tmax # infinity /\ RLt(tmax, t)) THEN NoHit
             ELSE IF \/ RLt(p[o[1]], rc.a0) \/ RLt(rc.a1, p[o[1]])
                     \/ RLt(p[o[2]], rc.b0) \/ RLt(rc.b1, p[o[2]]) THEN NoHit
             ELSE [hit |-> TRUE, t |-> t, p |-> p,
                   normal |-> axis_normal(rc.axis), mat |-> rc.mat]

\* hittable_list::hit: linear scan, shrinking the upper bound to the closest hit
RECURSIVE list_hit(_, _, _, _, _, _)
list_hit(objects, idx, r, tmin, closest_so_far, rec) ==
    IF idx > Len(objects) THEN rec
    ELSE LET h == rect_hit(objects[idx], r, tmin, closest_so_far)
         IN  IF h.hit THEN list_hit(objects, idx + 1, r, tmin, h.t, h)
                      ELSE list_hit(objects, idx + 1, r, tmin, closest_so_far, rec)

world_hit(objects, r, tmin, tmax) == list_hit(objects, 1, r, tmin, tmax, NoHit)

(***************************************************************************)
(* Camera (camera.h; spec section 4.4): a pinhole at lookfrom looking      *)
(* along +z, with a viewport of width and height 2 at distance 1.          *)
(***************************************************************************)
lookfrom == vec3(Zero, Zero, Zero)
cam_horizontal == vec3(Rat(-2, 1), Zero, Zero)
cam_vertical == vec3(Zero, Rat(2, 1), Zero)
cam_lower_left_corner == vec3(One, Rat(-1, 1), One)

get_ray(u, v) ==
    ray(lookfrom,
        vec3_sub(vec3_add(cam_lower_left_corner,
                          vec3_add(vec3_scale(u, cam_horizontal), vec3_scale(v, cam_vertical))),
                 lookfrom))

(***************************************************************************)
(* doubles of write_color (color.h).  A value is one of                    *)
(*   [k |-> "num", v |-> q]    the rational q (a zero of either sign is 0) *)
(*   [k |-> "sqrt", v |-> q]   the real square root of the rational q >= 0 *)
(*   [k |-> "inf"], [k |-> "ninf"], [k |-> "nan"]                          *)
(***************************************************************************)
fnum(q) == [k |-> "num", v |-> q]
NaN == [k |-> "nan"]
PosInf == [k |-> "inf"]
NegInf == [k |-> "ninf"]

\* 1.0 / samples_per_pixel (IEEE division: 1.0 / 0 is +infinity)
scale_of(spp) == IF spp = 0 THEN PosInf ELSE fnum(RDiv(One, Rat(spp, 1)))

\* r *= scale, r a finite channel value
fmul(q, sc) ==
    IF sc.k = "inf" THEN (IF q = Zero THEN NaN ELSE IF q.n > 0 THEN PosInf ELSE NegInf)
    ELSE fnum(RMul(q, sc.v))

\* sqrt of a double
fsqrt(x) == CASE x.k = "nan" -> NaN
              [] x.k = "inf" -> PosInf
              [] x.k = "ninf" -> NaN
              [] x.k = "num" -> IF x.v.n < 0 THEN NaN ELSE [k |-> "sqrt", v |-> x.v]

\* x < q and x > q for a double x and a rational q >= 0
flt(x, q) == CASE x.k = "nan" -> FALSE
               [] x.k = "inf" -> FALSE
               [] x.k = "ninf" -> TRUE
               [] x.k = "num" -> RLt(x.v, q)
               [] x.k = "sqrt" -> RLt(x.v, RMul(q, q))
fgt(x, q) == CASE x.k = "nan" -> FALSE
               [] x.k = "inf" -> TRUE
               [] x.k = "ninf" -> FALSE
               [] x.k = "num" -> RLt(q, x.v)
               [] x.k = "sqrt" -> RLt(RMul(q, q), x.v)

\* clamp of rtweekend.h: if (x < min) return min; if (x > max) return max; return x
clamp(x, lo, hi) == IF flt(x, lo) THEN fnum(lo) ELSE IF fgt(x, hi) THEN fnum(hi) ELSE x

\* 256 * x
times256(x) == CASE x.k = "num" -> fnum(RMul(Rat(256, 1), x.v))
                 [] x.k = "sqrt" -> [k |-> "sqrt", v |-> RMul(Rat(65536, 1), x.v)]
                 [] OTHER -> x

\* floor of the square root of a rational
floor_sqrt(q) == CHOOSE m \in 0..q.n : m * m * q.d <= q.n /\ (m + 1) * (m + 1) * q.d > q.n

\* static_cast<int>(double).  Converting a NaN or an infinity is undefined
\* behaviour: the build may produce INT_MIN (x86), 0 (AArch64) or trap
\* (-fsanitize=float-cast-overflow).  The result is the set of outcomes.
INT_MIN == -2147483647 - 1
cast_outcomes(x) ==
    CASE x.k = "num" -> {[trap |-> FALSE, v |-> static_cast_int(x.v)]}
      [] x.k = "sqrt" -> {[trap |-> FALSE, v |-> floor_sqrt(x.v)]}
      [] OTHER -> {[trap |-> FALSE, v |-> INT_MIN], [trap |-> FALSE, v |-> 0],
                   [trap |-> TRUE, v |-> 0]}

\* the gamma correction left out
channel_outcomes_nogamma(c, spp) ==
    cast_outcomes(times256(clamp(fmul(c, scale_of(spp)), Zero, Rat(999, 1000))))

\* one channel of write_color: scale, gamma, clamp, quantise
channel_outcomes(c, spp) ==
    cast_outcomes(times256(clamp(fsqrt(fmul(c, scale_of(spp))), Zero, Rat(999, 1000))))

\* write_color(out, pixel_color, samples_per_pixel): the set of outcomes, each
\* either a trap or the line of three integers appended to out
write_color(pixel_color, spp) ==
    { IF r.trap \/ g.trap \/ b.trap
         THEN [trap |-> TRUE, line |-> <<>>]
         ELSE [trap |-> FALSE, line |-> <<r.v, g.v, b.v>>] :
      <<r, g, b>> \in channel_outcomes(pixel_color[1], spp)
                      \X channel_outcomes(pixel_color[2], spp)
                      \X channel_outcomes(pixel_color[3], spp) }

(***************************************************************************)
(* PathRecorder (path_visualizer.h)                                        *)
(***************************************************************************)
PathVertex(pos, norm, contrib, is_light) ==
    [position |-> pos, normal |-> norm, contribution |-> contrib, is_light_source |-> is_light]

LightPath == [vertices |-> <<>>, final_color |-> color(0, 0, 0), depth |-> 0]

PathRecorder(max) ==
    [paths |-> <<>>, current_path |-> LightPath, max_paths |-> max, recording |-> FALSE]

\* paths.size() < max_paths compares a size_t with an int: a negative max_paths
\* converts to a huge unsigned value
size_less(n, max) == IF max < 0 THEN TRUE ELSE n < max

\* the capacity test left out
start_path_unchecked(R) == [R EXCEPT !.current_path = LightPath, !.recording = TRUE]

\* path_visualizer.h:42-47
start_path(R) ==
    IF size_less(Len(R.paths), R.max_paths)
    THEN [R EXCEPT !.current_path = LightPath, !.recording = TRUE]
    ELSE R

record_vertex(R, pos, norm, contrib, is_light) ==
    IF R.recording
    THEN [R EXCEPT !.current_path.vertices = Append(@, PathVertex(pos, norm, contrib, is_light)),
                   !.current_path.depth = @ + 1]
    ELSE R

end_path(R, final_color) ==
    IF R.recording
    THEN [R EXCEPT !.paths = Append(@, [R.current_path EXCEPT !.final_color = final_color]),
                   !.current_path.final_color = final_color,
                   !.recording = FALSE]
    ELSE R

get_paths(R) == R.paths

clear(R) == [R EXCEPT !.paths = <<>>, !.recording = FALSE]

(***************************************************************************)
(* PathVisualizer::export_paths_to_obj (path_visualizer.h).  The geometry  *)
(* written for a cylinder, a sphere and the box is kept as the number of   *)
(* OBJ vertices it adds to vertex_offset.                                  *)
(***************************************************************************)
\* write_cylinder returns early when the segment is shorter than 1e-6 (on the
\* model's coordinates: when its end points coincide); 2 * sides vertices
cylinder_vertices(start, end) ==
    IF length_squared(vec3_sub(end, start)) = Zero THEN 0 ELSE 2 * 8
\* write_sphere: (stacks + 1) * slices vertices
sphere_vertices == (6 + 1) * 8
\* write_cornell_box_geometry: five walls of 4 vertices and two boxes of 8
cornell_box_vertices == 5 * 4 + 8 + 8

RECURSIVE SumCylinders(_, _)
SumCylinders(vs, idx) ==
    IF idx + 1 > Len(vs) THEN 0
    ELSE cylinder_vertices(vs[idx].position, vs[idx + 1].position) + SumCylinders(vs, idx + 1)

path_vertices(path) == SumCylinders(path.vertices, 1) + Len(path.vertices) * sphere_vertices

RECURSIVE export_paths(_, _, _)
export_paths(paths, idx, vertex_offset) ==
    IF idx > Len(paths) THEN <<>>
    ELSE LET off == vertex_offset + path_vertices(paths[idx])
         IN  <<[path_num |-> idx - 1, depth |-> paths[idx].depth, vertex_offset |-> off]>>
             \o export_paths(paths, idx + 1, off)

\* the MTL file written before the OBJ stream is tested
export_paths_to_obj_mtlfirst(files, obj_opens, mtl_opens, paths, include_scene) ==
    IF ~obj_opens
    THEN [ret |-> FALSE, files |-> [files EXCEPT !.mtl = <<"GreenPath", "BoxWhite">>],
          cerr |-> <<"Failed to open file">>]
    ELSE LET start == 1 + (IF include_scene THEN cornell_box_vertices ELSE 0)
         IN  [ret |-> TRUE,
              files |-> [obj |-> [include_scene |-> include_scene,
                                  paths |-> export_paths(paths, 1, start)],
                         mtl |-> IF mtl_opens THEN <<"GreenPath", "BoxWhite">> ELSE files.mtl],
              cerr |-> <<>>]

\* The call on the files [obj, mtl] ("absent": no such file) when opening the
\* OBJ file succeeds (obj_opens) or fails, and likewise the MTL file.  Returns
\* the return value, the files after the call and the lines the call itself
\* writes to std::cerr.
export_paths_to_obj(files, obj_opens, mtl_opens, paths, include_scene) ==
    IF ~obj_opens
    THEN [ret |-> FALSE, files |-> files, cerr |-> <<"Failed to open file">>]
    ELSE LET start == 1 + (IF include_scene THEN cornell_box_vertices ELSE 0)
         IN  [ret |-> TRUE,
              files |-> [obj |-> [include_scene |-> include_scene,
                                  paths |-> export_paths(paths, 1, start)],
                         mtl |-> IF mtl_opens THEN <<"GreenPath", "BoxWhite">> ELSE files.mtl],
              cerr |-> <<>>]

(***************************************************************************)
(* Scenes.  A scene is a hittable_list of xy rectangles: slot n, when      *)
(* present, is the rectangle z = 2n, -3 <= x, y <= 3, normal +z, with a    *)
(* lambertian or an emitting material.  The list is kept far to near.      *)
(***************************************************************************)
NumSlots == max_depth
SlotKinds == {"none", "lambertian", "diffuse_light"}

slot_albedo(n) == CASE n % 3 = 1 -> vec3(Half, Half, Half)
                    [] n % 3 = 2 -> vec3(One, Half, Zero)
                    [] n % 3 = 0 -> vec3(Half, One, Half)
\* the light of main.cpp:71 on odd slots, a faint emitter on even slots
slot_emit(n) == IF n % 2 = 1 THEN color(15, 15, 15) ELSE vec3(Rat(1, 16), Zero, Zero)

slot_rect(n, kind) ==
    [axis |-> 3, k |-> Rat(2 * n, 1),
     a0 |-> Rat(-3, 1), a1 |-> Rat(3, 1), b0 |-> Rat(-3, 1), b1 |-> Rat(3, 1),
     mat |-> IF kind = "lambertian" THEN lambertian(slot_albedo(n))
                                    ELSE diffuse_light(slot_emit(n))]

RECURSIVE scene_of(_, _)
scene_of(kinds, n) ==
    IF n = 0 THEN <<>>
    ELSE (IF kinds[n] = "none" THEN <<>> ELSE <<slot_rect(n, kinds[n])>>)
         \o scene_of(kinds, n - 1)

Scenes == {scene_of(kinds, NumSlots) : kinds \in [1..NumSlots -> SlotKinds]}

(***************************************************************************)
(* State                                                                   *)
(***************************************************************************)
VARIABLES
    stream,                 \* the random stream (fixed)
    rng,                    \* state of the random source: draws made so far
    world,                  \* hittable_list world (fixed after construction)
    pc,                     \* position of main / ray_color
    k,                      \* loop counter of the pre-selection loop
    path_sample_positions,  \* main: vector of <<i, j>>
    paths_recorded,         \* main
    path_recorder,          \* main: PathRecorder path_recorder(20)
    out,                    \* std::cout: header, then pixel lines
    j, i, s,                \* loop counters of the render loop
    pixel_color,            \* accumulated colour of the current pixel
    r, depth, rec, path_id, \* arguments of the running ray_color call
    stack,                  \* suspended ray_color calls (innermost last)
    retval,                 \* value returned by the last finished ray_color call
    ray_contrib,            \* main: result of the top-level ray_color call
    export_ret, files, cerr,\* result of export_paths_to_obj, files on disk, std::cerr
    nhit, nmat,             \* history: scene queries / material calls of the top-level call
    obs,                    \* history: one entry per sample of the render
    outlog,                 \* history: pixel and sample count of each pixel line
    rng0, run, first,       \* history: render start state, render number, first render
    probe                   \* call and result of a function applied on its own

envVars == <<stream, world>>
mainVars == <<k, path_sample_positions, paths_recorded>>
loopVars == <<j, i, s, pixel_color>>
callVars == <<r, depth, rec, path_id, stack, retval>>
expVars == <<export_ret, files, cerr>>
histVars == <<nhit, nmat, obs, outlog, rng0, run, first>>
vars == <<stream, world, rng, pc, mainVars, path_recorder, out, loopVars, callVars,
          ray_contrib, expVars, histVars, probe>>

NoRay == ray(lookfrom, vec3(Zero, Zero, Zero))

InitProgram ==
    /\ rng = 0
    /\ k = 0
    /\ path_sample_positions = <<>>
    /\ paths_recorded = 0
    /\ path_recorder = PathRecorder(NumPaths)
    /\ out = <<>>
    /\ j = 0 /\ i = 0 /\ s = 0
    /\ pixel_color = color(0, 0, 0)
    /\ r = NoRay /\ depth = 0 /\ rec = FALSE /\ path_id = -1
    /\ stack = <<>>
    /\ retval = color(0, 0, 0)
    /\ ray_contrib = color(0, 0, 0)
    /\ export_ret = FALSE
    /\ files = [obj |-> "absent", mtl |-> "absent"]
    /\ cerr = <<>>
    /\ nhit = 0 /\ nmat = 0
    /\ obs = <<>> /\ outlog = <<>>
    /\ rng0 = 0 /\ run = 1
    /\ first = [obs |-> <<>>, out |-> <<>>, paths |-> 0]

Init ==
    /\ stream \in Streams
    /\ world \in Scenes
    /\ pc = "presel"
    /\ InitProgram
    /\ probe = [fn |-> "none", called |-> FALSE]

(***************************************************************************)
(* main (main.cpp:56-204)                                                  *)
(***************************************************************************)
\* main.cpp:119-123, one iteration of the pre-selection loop
PreSelect ==
    /\ pc = "presel"
    /\ k < NumPaths
    /\ LET rand_i == static_cast_int(RMul(random_double(stream, rng), Rat(image_width, 1)))
           rand_j == static_cast_int(RMul(random_double(stream, rng + 1), Rat(image_height, 1)))
       IN  path_sample_positions' = Append(path_sample_positions, <<rand_i, rand_j>>)
    /\ rng' = rng + 2
    /\ k' = k + 1
    /\ pc' = IF k + 1 < NumPaths THEN "presel" ELSE "header"
    /\ UNCHANGED <<envVars, paths_recorded, path_recorder, out, loopVars, callVars,
                   ray_contrib, expVars, histVars, probe>>

\* main.cpp:126-131, the header and the entry into the loops
WriteHeader ==
    /\ pc = "header"
    /\ out' = Append(out, <<"P3", image_width, image_height, 255>>)
    /\ j' = image_height - 1
    /\ i' = 0
    /\ s' = 0
    /\ pixel_color' = color(0, 0, 0)
    /\ rng0' = rng
    /\ pc' = IF image_height - 1 >= 0 /\ 0 < image_width THEN "sample" ELSE "export"
    /\ UNCHANGED <<envVars, rng, mainVars, path_recorder, callVars, ray_contrib, expVars,
                   nhit, nmat, obs, outlog, run, first, probe>>

\* main.cpp:146-154: index of the first pre-selected position equal to (i, j), 0 if none
FirstMatch(positions, pi, pj) ==
    IF \E n \in 1..Len(positions) : positions[n] = <<pi, pj>>
    THEN CHOOSE n \in 1..Len(positions) :
             /\ positions[n] = <<pi, pj>>
             /\ \A m \in 1..(n - 1) : positions[m] # <<pi, pj>>
    ELSE 0

\* vector::erase(begin() + (n - 1))
Erase(seq, n) == SubSeq(seq, 1, n - 1) \o SubSeq(seq, n + 1, Len(seq))

\* main.cpp:145-155: position_index + 1 of the matching position, 0 when
\* should_record stays false
MatchIndex(positions, recorded, pi, pj) ==
    IF recorded < NumPaths THEN FirstMatch(positions, pi, pj) ELSE 0

\* the camera vertex left out
BeginRecording_nocamera(R, cam_pos) == start_path(R)

\* main.cpp:157-162: start_path and the camera vertex
BeginRecording(R, cam_pos) ==
    record_vertex(start_path(R), cam_pos, vec3(Zero, Zero, One), color(1, 1, 1), FALSE)

\* main.cpp:134-176, one sample up to the call of ray_color
Sample ==
    /\ pc = "sample"
    /\ s < samples_per_pixel
    /\ LET u == RDiv(RAdd(Rat(i, 1), random_double(stream, rng)), Rat(image_width - 1, 1))
           v == RDiv(RAdd(Rat(j, 1), random_double(stream, rng + 1)), Rat(image_height - 1, 1))
           cam_ray == get_ray(u, v)
           m == MatchIndex(path_sample_positions, paths_recorded, i, j)
           should_record == m # 0
       IN  /\ r' = cam_ray
           /\ path_sample_positions' =
                  IF should_record THEN Erase(path_sample_positions, m) ELSE path_sample_positions
           /\ path_recorder' =
                  IF should_record THEN BeginRecording(path_recorder, cam_ray.orig)
                                   ELSE path_recorder
           /\ rec' = should_record
           /\ paths_recorded' = IF should_record THEN paths_recorded + 1 ELSE paths_recorded
           /\ path_id' = paths_recorded' - 1
           /\ obs' = Append(obs, [i |-> i, j |-> j, rng |-> rng, depth |-> max_depth,
                                  recorded |-> should_record,
                                  done |-> FALSE, rng_end |-> 0, ret |-> color(0, 0, 0)])
    /\ rng' = rng + 2
    /\ depth' = max_depth
    /\ stack' = <<>>
    /\ nhit' = 0
    /\ nmat' = 0
    /\ pc' = "call"
    /\ UNCHANGED <<envVars, k, out, loopVars, retval, ray_contrib, expVars,
                   outlog, rng0, run, first, probe>>

(***************************************************************************)
(* ray_color (main.cpp:11-54).  pc = "call": a call has been entered with  *)
(* the arguments r, depth, rec (recorder != nullptr), path_id; pc = "ret": *)
(* the innermost call has returned retval.  The std::clog lines of         *)
(* should_debug are not part of the state.                                 *)
(***************************************************************************)
\* the test written as depth < 0
depth_exhausted_strict(d) == d < 0

\* main.cpp:13
depth_exhausted(d) == d <= 0

\* main.cpp:22, the scene query
scene_query(objects, ry) == world_hit(objects, ry, t_min, infinity)

\* a background that is not black
miss_color_sky == color(1, 1, 1)

\* main.cpp:27
miss_color == color(0, 0, 0)

\* main.cpp:41-43: the recorder after a successful scatter
scatter_vertex(attached, R, h, attenuation) ==
    IF attached THEN record_vertex(R, h.p, h.normal, attenuation, FALSE) ELSE R

\* the attenuation left out of the product
scatter_return_noatt(attached, em, attenuation, sub) == vec3_add(em, sub)

\* main.cpp:44: the value returned once the recursive call has returned sub
scatter_return(attached, em, attenuation, sub) == vec3_add(em, vec3_mul(attenuation, sub))

\* main.cpp:48-52: the recorder after a hit that does not scatter
emit_vertex(attached, R, h, em) ==
    IF attached /\ RLt(Rat(1, 100), length_squared(em))
    THEN record_vertex(R, h.p, h.normal, em, TRUE)
    ELSE R

\* the return placed inside the if (recorder) block
emit_return_attached(attached, em) == IF attached THEN em ELSE color(0, 0, 0)

\* main.cpp:53
emit_return(attached, em) == em

\* the recursive call made with the caller's depth
next_depth_same(d) == d

\* main.cpp:44: the depth argument of the recursive call
next_depth(d) == d - 1

\* main.cpp:13-14
RayColorExhausted ==
    /\ pc = "call"
    /\ depth_exhausted(depth)
    /\ retval' = color(0, 0, 0)
    /\ pc' = "ret"
    /\ UNCHANGED <<envVars, rng, mainVars, path_recorder, out, loopVars,
                   r, depth, rec, path_id, stack, ray_contrib, expVars, histVars, probe>>

\* main.cpp:22-28
RayColorMiss ==
    /\ pc = "call"
    /\ ~depth_exhausted(depth)
    /\ ~scene_query(world, r).hit
    /\ nhit' = nhit + 1
    /\ retval' = miss_color
    /\ pc' = "ret"
    /\ UNCHANGED <<envVars, rng, mainVars, path_recorder, out, loopVars,
                   r, depth, rec, path_id, stack, ray_contrib, expVars,
                   nmat, obs, outlog, rng0, run, first, probe>>

\* main.cpp:34-44, up to the recursive call
RayColorScatter ==
    /\ pc = "call"
    /\ ~depth_exhausted(depth)
    /\ LET h == scene_query(world, r)
       IN  /\ h.hit
           /\ LET em == emitted(h.mat)
                  sc == scatter(h.mat, r, h, random_double(stream, rng),
                                random_double(stream, rng + 1))
              IN  /\ sc.ok
                  /\ rng' = rng + sc.draws
                  /\ path_recorder' = scatter_vertex(rec, path_recorder, h, sc.attenuation)
                  /\ stack' = Append(stack, [r |-> r, depth |-> depth, hit |-> h,
                                             emitted |-> em, attenuation |-> sc.attenuation,
                                             scattered |-> sc.scattered])
                  /\ r' = sc.scattered
    /\ depth' = next_depth(depth)
    /\ nhit' = nhit + 1
    /\ nmat' = nmat + 2
    /\ pc' = "call"
    /\ UNCHANGED <<envVars, mainVars, out, loopVars, rec, path_id, retval, ray_contrib,
                   expVars, obs, outlog, rng0, run, first, probe>>

\* main.cpp:34-39 and 47-53, a hit whose material declines to scatter
RayColorEmit ==
    /\ pc = "call"
    /\ ~depth_exhausted(depth)
    /\ LET h == scene_query(world, r)
       IN  /\ h.hit
           /\ LET em == emitted(h.mat)
                  sc == scatter(h.mat, r, h, random_double(stream, rng),
                                random_double(stream, rng + 1))
              IN  /\ ~sc.ok
                  /\ rng' = rng + sc.draws
                  /\ path_recorder' = emit_vertex(rec, path_recorder, h, em)
                  /\ retval' = emit_return(rec, em)
    /\ nhit' = nhit + 1
    /\ nmat' = nmat + 2
    /\ pc' = "ret"
    /\ UNCHANGED <<envVars, mainVars, out, loopVars, r, depth, rec, path_id, stack,
                   ray_contrib, expVars, obs, outlog, rng0, run, first, probe>>

\* main.cpp:44, the return of a call whose recursive call has returned
RayColorReturn ==
    /\ pc = "ret"
    /\ stack # <<>>
    /\ LET f == stack[Len(stack)]
       IN  /\ retval' = scatter_return(rec, f.emitted, f.attenuation, retval)
           /\ r' = f.r
           /\ depth' = f.depth
    /\ stack' = SubSeq(stack, 1, Len(stack) - 1)
    /\ pc' = "ret"
    /\ UNCHANGED <<envVars, rng, mainVars, path_recorder, out, loopVars, rec, path_id,
                   ray_contrib, expVars, histVars, probe>>

\* main.cpp:176-189: the top-level call has returned
Accumulate ==
    /\ pc = "ret"
    /\ stack = <<>>
    /\ ray_contrib' = retval
    /\ pixel_color' = vec3_add(pixel_color, retval)
    /\ path_recorder' = IF rec THEN end_path(path_recorder, retval) ELSE path_recorder
    /\ s' = s + 1
    /\ obs' = [obs EXCEPT ![Len(obs)] = [@ EXCEPT !.done = TRUE, !.rng_end = rng, !.ret = retval]]
    /\ pc' = "sample"
    /\ UNCHANGED <<envVars, rng, mainVars, out, j, i, callVars, expVars,
                   nhit, nmat, outlog, rng0, run, first, probe>>

\* the column loop running one column too far
NextPixel_cols(pi, pj) ==
    IF pi + 1 <= image_width THEN [i |-> pi + 1, j |-> pj, pc |-> "sample"]
    ELSE IF pj - 1 >= 0 /\ 0 < image_width THEN [i |-> 0, j |-> pj - 1, pc |-> "sample"]
    ELSE [i |-> pi + 1, j |-> pj - 1, pc |-> "export"]

\* main.cpp:128-131 and 191: the loop counters after the pixel (i, j)
NextPixel(pi, pj) ==
    IF pi + 1 < image_width THEN [i |-> pi + 1, j |-> pj, pc |-> "sample"]
    ELSE IF pj - 1 >= 0 /\ 0 < image_width THEN [i |-> 0, j |-> pj - 1, pc |-> "sample"]
    ELSE [i |-> pi + 1, j |-> pj - 1, pc |-> "export"]

\* main.cpp:191, then the next pixel
WritePixel ==
    /\ pc = "sample"
    /\ ~(s < samples_per_pixel)
    /\ \E o \in write_color(pixel_color, samples_per_pixel) :
          IF o.trap
          THEN /\ pc' = "trap"
               /\ UNCHANGED <<out, outlog, loopVars>>
          ELSE /\ out' = Append(out, o.line)
               /\ outlog' = Append(outlog, [i |-> i, j |-> j, nobs |-> Len(obs)])
               /\ LET n == NextPixel(i, j)
                  IN  /\ i' = n.i
                      /\ j' = n.j
                      /\ pc' = n.pc
               /\ s' = 0
               /\ pixel_color' = color(0, 0, 0)
    /\ UNCHANGED <<envVars, rng, mainVars, path_recorder, callVars, ray_contrib, expVars,
                   nhit, nmat, obs, rng0, run, first, probe>>

\* main.cpp:199-203 with path_visualizer.h:237-312: the OBJ file opens
ExportOpens ==
    /\ pc = "export"
    /\ \E mtl_opens \in BOOLEAN :
          LET e == export_paths_to_obj(files, TRUE, mtl_opens, get_paths(path_recorder), TRUE)
          IN  /\ export_ret' = e.ret
              /\ files' = e.files
              /\ cerr' = cerr \o e.cerr
    /\ pc' = "done"
    /\ UNCHANGED <<envVars, rng, mainVars, path_recorder, out, loopVars, callVars,
                   ray_contrib, histVars, probe>>

\* main.cpp:199-203 with path_visualizer.h:237-241: the OBJ file does not open
ExportFails ==
    /\ pc = "export"
    /\ LET e == export_paths_to_obj(files, FALSE, FALSE, get_paths(path_recorder), TRUE)
       IN  /\ export_ret' = e.ret
           /\ files' = e.files
           /\ cerr' = cerr \o e.cerr
    /\ pc' = "done"
    /\ UNCHANGED <<envVars, rng, mainVars, path_recorder, out, loopVars, callVars,
                   ray_contrib, histVars, probe>>

Next ==
    \/ PreSelect
    \/ WriteHeader
    \/ Sample
    \/ RayColorExhausted
    \/ RayColorMiss
    \/ RayColorScatter
    \/ RayColorEmit
    \/ RayColorReturn
    \/ Accumulate
    \/ WritePixel
    \/ ExportOpens
    \/ ExportFails

Spec == Init /\ [][Next]_vars

(***************************************************************************)
(* Two renders from the same random-stream state.  After the render with   *)
(* the recorder has finished, the same render is run again from the        *)
(* random-stream state and the scene it started from, with no position     *)
(* pre-selected: rec stays false (recorder == nullptr) for every sample.   *)
(***************************************************************************)
RenderWithoutRecorder ==
    /\ pc = "done"
    /\ run = 1
    /\ first' = [obs |-> obs, out |-> out, paths |-> Len(get_paths(path_recorder))]
    /\ run' = 2
    /\ rng' = rng0
    /\ k' = 0
    /\ path_sample_positions' = <<>>
    /\ paths_recorded' = 0
    /\ path_recorder' = PathRecorder(NumPaths)
    /\ out' = <<>>
    /\ j' = 0 /\ i' = 0 /\ s' = 0
    /\ pixel_color' = color(0, 0, 0)
    /\ r' = NoRay /\ depth' = 0 /\ rec' = FALSE /\ path_id' = -1
    /\ stack' = <<>>
    /\ retval' = color(0, 0, 0)
    /\ ray_contrib' = color(0, 0, 0)
    /\ export_ret' = FALSE
    /\ files' = [obj |-> "absent", mtl |-> "absent"]
    /\ cerr' = <<>>
    /\ nhit' = 0 /\ nmat' = 0
    /\ obs' = <<>> /\ outlog' = <<>>
    /\ pc' = "header"
    /\ UNCHANGED <<envVars, rng0, probe>>

NextTwin == Next \/ RenderWithoutRecorder

SpecTwin == Init /\ [][NextTwin]_vars

(***************************************************************************)
(* lambertian::scatter applied on its own to bounded inputs                *)
(***************************************************************************)
AxisUnits == {vec3(One, Zero, Zero), vec3(Rat(-1, 1), Zero, Zero),
              vec3(Zero, One, Zero), vec3(Zero, Rat(-1, 1), Zero),
              vec3(Zero, Zero, One), vec3(Zero, Zero, Rat(-1, 1))}
ProbePoints == {vec3(Zero, Zero, Zero), vec3(Rat(2, 1), Rat(-2, 1), Rat(4, 1)),
                vec3(Half, Rat(3, 2), Rat(6, 1))}
ProbeAlbedos == {slot_albedo(n) : n \in 1..3} \cup {color(0, 0, 0), color(1, 1, 1)}

InitScatter ==
    /\ stream = [x \in 1..StreamLen |-> Zero]
    /\ world = <<>>
    /\ pc = "probe"
    /\ InitProgram
    /\ probe \in [fn : {"scatter"}, called : {FALSE}, albedo : ProbeAlbedos,
                  p : ProbePoints, normal : AxisUnits, r_dir : AxisUnits,
                  xi1 : RandomDoubles, xi2 : RandomDoubles]

ScatterCall ==
    /\ pc = "probe"
    /\ probe.fn = "scatter"
    /\ ~probe.called
    /\ LET mat == lambertian(probe.albedo)
           r_in == ray(lookfrom, probe.r_dir)
           h == [hit |-> TRUE, t |-> One, p |-> probe.p, normal |-> probe.normal, mat |-> mat]
       IN  probe' = [fn |-> "scatter", called |-> TRUE, mat |-> mat, r_in |-> r_in, rec |-> h,
                     xi1 |-> probe.xi1, xi2 |-> probe.xi2,
                     result |-> scatter(mat, r_in, h, probe.xi1, probe.xi2)]
    /\ UNCHANGED <<envVars, rng, pc, mainVars, path_recorder, out, loopVars, callVars,
                   ray_contrib, expVars, histVars>>

SpecScatter == InitScatter /\ [][ScatterCall]_vars

(***************************************************************************)
(* write_color applied on its own to bounded inputs                        *)
(***************************************************************************)
MaxSamples == 3
ProbeChannels == {Zero, Rat(1, 64), Rat(1, 4), Half, Rat(2, 3), One, Rat(3, 2),
                  Rat(15, 1), Rat(45, 1)}
ProbeSamples == (-1)..MaxSamples

InitWriteColor ==
    /\ stream = [x \in 1..StreamLen |-> Zero]
    /\ world = <<>>
    /\ pc = "probe"
    /\ InitProgram
    /\ probe \in [fn : {"write_color"}, called : {FALSE},
                  pixel_color : ProbeChannels \X ProbeChannels \X {Zero, Half, Rat(15, 1)},
                  samples_per_pixel : ProbeSamples]

WriteColorCall ==
    /\ pc = "probe"
    /\ probe.fn = "write_color"
    /\ ~probe.called
    /\ \E o \in write_color(probe.pixel_color, probe.samples_per_pixel) :
          probe' = [fn |-> "write_color", called |-> TRUE,
                    pixel_color |-> probe.pixel_color,
                    samples_per_pixel |-> probe.samples_per_pixel, outcome |-> o]
    /\ UNCHANGED <<envVars, rng, pc, mainVars, path_recorder, out, loopVars, callVars,
                   ray_contrib, expVars, histVars>>

SpecWriteColor == InitWriteColor /\ [][WriteColorCall]_vars

(***************************************************************************)
(* ray_color as a function of its arguments (main.cpp:11-54, recorder ==   *)
(* nullptr), next to the iterative loop of spec section 9.  The colour     *)
(* arithmetic takes a mode: "double" rounds every product and every sum to *)
(* the nearest value with a SigBits-bit significand (ties to even), as a   *)
(* double does with 53 bits; "real" is the arithmetic of the reals.  Both  *)
(* functions return their value, the state of the random source, and the   *)
(* log of the scene queries and scatter calls they made, in order.         *)
(***************************************************************************)
SigBits == 5

RECURSIVE Pow2(_)
Pow2(e) == IF e = 0 THEN 1 ELSE 2 * Pow2(e - 1)

\* numerator and denominator of q / 2^e for q >= 0
ScaleNum(q, e) == IF e >= 0 THEN q.n ELSE q.n * Pow2(-e)
ScaleDen(q, e) == IF e >= 0 THEN q.d * Pow2(e) ELSE q.d

\* the exponent e with 2^(SigBits-1) <= q / 2^e < 2^SigBits, for q > 0
ExponentOf(q) ==
    CHOOSE e \in (-16)..8 :
        /\ Pow2(SigBits - 1) <= ScaleNum(q, e) \div ScaleDen(q, e)
        /\ ScaleNum(q, e) \div ScaleDen(q, e) < Pow2(SigBits)

\* m * 2^e
Unscale(m, e) == IF e >= 0 THEN Rat(m * Pow2(e), 1) ELSE Rat(m, Pow2(-e))

\* round to nearest, ties to even: m + rem/den to an integer, times 2^e
RoundUp(m, rem, den, e) ==
    Unscale(IF 2 * rem > den \/ (2 * rem = den /\ m % 2 = 1) THEN m + 1 ELSE m, e)

RoundAt(a, e) ==
    RoundUp(ScaleNum(a, e) \div ScaleDen(a, e), ScaleNum(a, e) % ScaleDen(a, e),
            ScaleDen(a, e), e)

\* the nearest value with a SigBits-bit significand
fl(q) ==
    IF q.n = 0 THEN q
    ELSE IF q.n < 0 THEN RSub(Zero, RoundAt(fabs(q), ExponentOf(fabs(q))))
    ELSE RoundAt(q, ExponentOf(q))

color_add(arith, u, v) ==
    IF arith = "real" THEN vec3_add(u, v) ELSE [c \in 1..3 |-> fl(RAdd(u[c], v[c]))]
color_mul(arith, u, v) ==
    IF arith = "real" THEN vec3_mul(u, v) ELSE [c \in 1..3 |-> fl(RMul(u[c], v[c]))]

\* the attenuation left out of the product
ray_color_return_noatt(arith, em, attenuation, sub) == color_add(arith, em, sub)

\* main.cpp:44: emitted + attenuation * ray_color(...)
ray_color_return(arith, em, attenuation, sub) ==
    color_add(arith, em, color_mul(arith, attenuation, sub))

LogHit(ry) == [op |-> "hit", r |-> ry]
LogScatter(h, ry, n, em, sc) ==
    [op |-> "scatter", mat |-> h.mat, r_in |-> ry, p |-> h.p, normal |-> h.normal, rng |-> n,
     emitted |-> em, ok |-> sc.ok, attenuation |-> sc.attenuation]

RECURSIVE ray_color(_, _, _, _, _, _)

\* main.cpp:44: the value of a call whose recursive call returned sub
ray_color_bounce(arith, em, sc, lg, sub) ==
    [value |-> ray_color_return(arith, em, sc.attenuation, sub.value),
     rng |-> sub.rng, log |-> lg \o sub.log]

\* main.cpp:39-53: after the scatter call
ray_color_scattered(arith, ry, objects, d, strm, n, h, em, sc) ==
    IF sc.ok
    THEN ray_color_bounce(arith, em, sc, <<LogHit(ry), LogScatter(h, ry, n, em, sc)>>,
                          ray_color(arith, sc.scattered, objects, next_depth(d), strm,
                                    n + sc.draws))
    ELSE [value |-> emit_return(FALSE, em), rng |-> n + sc.draws,
          log |-> <<LogHit(ry), LogScatter(h, ry, n, em, sc)>>]

\* main.cpp:22-39: after the scene query
ray_color_hit(arith, ry, objects, d, strm, n, h) ==
    IF ~h.hit THEN [value |-> miss_color, rng |-> n, log |-> <<LogHit(ry)>>]
    ELSE ray_color_scattered(arith, ry, objects, d, strm, n, h, emitted(h.mat),
                             scatter(h.mat, ry, h, random_double(strm, n),
                                     random_double(strm, n + 1)))

\* main.cpp:11-54
ray_color(arith, ry, objects, d, strm, n) ==
    IF depth_exhausted(d) THEN [value |-> color(0, 0, 0), rng |-> n, log |-> <<>>]
    ELSE ray_color_hit(arith, ry, objects, d, strm, n, scene_query(objects, ry))

\* the iterative restatement: a loop of at most d rounds carrying the running
\* attenuation product (throughput) and the accumulated colour (result)
RECURSIVE iterative_loop(_, _, _, _, _, _, _, _, _)

\* a round after the scatter call: result already holds throughput * emitted
iterative_scattered(arith, objects, left, strm, n, throughput, result, lg, sc) ==
    IF sc.ok
    THEN iterative_loop(arith, sc.scattered, objects, left - 1, strm, n + sc.draws,
                        color_mul(arith, throughput, sc.attenuation), result, lg)
    ELSE [value |-> result, rng |-> n + sc.draws, log |-> lg]

\* a round after the emitted and scatter calls
iterative_emit(arith, ry, objects, left, strm, n, throughput, result, lg, h, em, sc) ==
    iterative_scattered(arith, objects, left, strm, n, throughput,
                        color_add(arith, result, color_mul(arith, throughput, em)),
                        lg \o <<LogHit(ry), LogScatter(h, ry, n, em, sc)>>, sc)

\* a round after the scene query
iterative_hit(arith, ry, objects, left, strm, n, throughput, result, lg, h) ==
    IF ~h.hit THEN [value |-> result, rng |-> n, log |-> Append(lg, LogHit(ry))]
    ELSE iterative_emit(arith, ry, objects, left, strm, n, throughput, result, lg, h,
                        emitted(h.mat),
                        scatter(h.mat, ry, h, random_double(strm, n),
                                random_double(strm, n + 1)))

iterative_loop(arith, ry, objects, left, strm, n, throughput, result, lg) ==
    IF left <= 0 THEN [value |-> result, rng |-> n, log |-> lg]
    ELSE iterative_hit(arith, ry, objects, left, strm, n, throughput, result, lg,
                       scene_query(objects, ry))

ray_color_iterative(arith, ry, objects, d, strm, n) ==
    iterative_loop(arith, ry, objects, d, strm, n, color(1, 1, 1), color(0, 0, 0), <<>>)

\* scenes with albedos that are not powers of two (main.cpp:68-70 has 0.65,
\* 0.05, 0.73, 0.12, 0.45, 0.15), each exact with a SigBits-bit significand
iter_albedo(n) == CASE n % 3 = 1 -> vec3(Rat(3, 4), Rat(3, 4), Rat(3, 4))
                    [] n % 3 = 2 -> vec3(Rat(5, 8), Rat(7, 16), Rat(3, 8))
                    [] n % 3 = 0 -> vec3(Rat(1, 8), Rat(7, 16), Rat(5, 8))

iter_rect(n, kind) ==
    [slot_rect(n, kind) EXCEPT
        !.mat = IF kind = "lambertian" THEN lambertian(iter_albedo(n)) ELSE @]

RECURSIVE iter_scene_of(_, _)
iter_scene_of(kinds, n) ==
    IF n = 0 THEN <<>>
    ELSE (IF kinds[n] = "none" THEN <<>> ELSE <<iter_rect(n, kinds[n])>>)
         \o iter_scene_of(kinds, n - 1)

IterScenes == {iter_scene_of(kinds, NumSlots) : kinds \in [1..NumSlots -> SlotKinds]}
IterRays == {get_ray(u, v) : u \in {Zero, Half}, v \in {Half, One}}

InitIter ==
    /\ stream \in Streams
    /\ world \in IterScenes
    /\ pc = "probe"
    /\ InitProgram
    /\ probe \in [fn : {"ray_color"}, called : {FALSE}, r : IterRays, depth : 0..max_depth]

RayColorCall ==
    /\ pc = "probe"
    /\ probe.fn = "ray_color"
    /\ ~probe.called
    /\ LET recursive == [a \in {"double", "real"} |->
                            ray_color(a, probe.r, world, probe.depth, stream, rng)]
           iterative == [a \in {"double", "real"} |->
                            ray_color_iterative(a, probe.r, world, probe.depth, stream, rng)]
       IN  probe' = [fn |-> "ray_color", called |-> TRUE, r |-> probe.r, depth |-> probe.depth,
                     recursive |-> recursive["double"], iterative |-> iterative["double"],
                     recursive_real |-> recursive["real"],
                     iterative_real |-> iterative["real"]]
    /\ UNCHANGED <<envVars, rng, pc, mainVars, path_recorder, out, loopVars, callVars,
                   ray_contrib, expVars, histVars>>

SpecIter == InitIter /\ [][RayColorCall]_vars

(***************************************************************************)
(* PathRecorder driven on its own (path_visualizer.h:32-70): a recorder    *)
(* constructed with max_paths in 0..MaxRecorderPaths receives any sequence *)
(* of start_path, record_vertex, end_path and clear calls.  probe keeps    *)
(* the history of the calls: op is the last call, last the last call       *)
(* among start_path, end_path and clear, refused whether the last          *)
(* start_path was made with max_paths paths (or more) already stored.      *)
(***************************************************************************)
MaxRecorderPaths == 2
MaxVertices == 2

InitRecorder ==
    /\ stream = [x \in 1..StreamLen |-> Zero]
    /\ world = <<>>
    /\ rng = 0
    /\ k = 0
    /\ path_sample_positions = <<>>
    /\ paths_recorded = 0
    /\ \E max \in 0..MaxRecorderPaths : path_recorder = PathRecorder(max)
    /\ out = <<>>
    /\ j = 0 /\ i = 0 /\ s = 0
    /\ pixel_color = color(0, 0, 0)
    /\ r = NoRay /\ depth = 0 /\ rec = FALSE /\ path_id = -1
    /\ stack = <<>>
    /\ retval = color(0, 0, 0)
    /\ ray_contrib = color(0, 0, 0)
    /\ export_ret = FALSE
    /\ files = [obj |-> "absent", mtl |-> "absent"]
    /\ cerr = <<>>
    /\ nhit = 0 /\ nmat = 0
    /\ obs = <<>> /\ outlog = <<>>
    /\ rng0 = 0 /\ run = 1
    /\ first = [obs |-> <<>>, out |-> <<>>, paths |-> 0]
    /\ pc = "recorder"
    /\ probe = [fn |-> "recorder", op |-> "none", last |-> "none", refused |-> FALSE]

RecorderFrame ==
    UNCHANGED <<envVars, rng, pc, mainVars, out, loopVars, callVars, ray_contrib, expVars,
                histVars>>

StartPath ==
    /\ pc = "recorder"
    /\ path_recorder' = start_path(path_recorder)
    /\ probe' = [probe EXCEPT !.op = "start_path", !.last = "start_path",
                              !.refused = Len(path_recorder.paths) >= path_recorder.max_paths]
    /\ RecorderFrame

RecordVertex ==
    /\ pc = "recorder"
    /\ path_recorder.recording => Len(path_recorder.current_path.vertices) < MaxVertices
    /\ \E is_light \in BOOLEAN :
          path_recorder' = record_vertex(path_recorder, lookfrom, vec3(Zero, Zero, One),
                                         color(1, 1, 1), is_light)
    /\ probe' = [probe EXCEPT !.op = "record_vertex"]
    /\ RecorderFrame

EndPath ==
    /\ pc = "recorder"
    /\ \E final_color \in {color(0, 0, 0), color(1, 1, 1)} :
          path_recorder' = end_path(path_recorder, final_color)
    /\ probe' = [probe EXCEPT !.op = "end_path", !.last = "end_path"]
    /\ RecorderFrame

Clear ==
    /\ pc = "recorder"
    /\ path_recorder' = clear(path_recorder)
    /\ probe' = [probe EXCEPT !.op = "clear", !.last = "clear"]
    /\ RecorderFrame

NextRecorder == StartPath \/ RecordVertex \/ EndPath \/ Clear

SpecRecorder == InitRecorder /\ [][NextRecorder]_vars

(***************************************************************************)
(* Properties                                                              *)
(***************************************************************************)
\* the hit record and the scatter result of the ray_color call being entered
CallHit == scene_query(world, r)
CallScatter == scatter(CallHit.mat, r, CallHit, random_double(stream, rng),
                       random_double(stream, rng + 1))

\* C1: for depth > 0 and a hit, a call whose material scatters calls ray_color
\* on the scattered ray with depth - 1 and returns emitted + attenuation * (the
\* value that call returned), emitted and attenuation being those of the hit
\* material; a call whose material declines returns the material's emitted()
\* value and makes no recursive call.
C1_ScatterLaw ==
    [][ /\ (pc = "call" /\ depth > 0 /\ CallHit.hit /\ CallScatter.ok) =>
             /\ pc' = "call"
             /\ r' = CallScatter.scattered
             /\ depth' = depth - 1
             /\ stack' = Append(stack, stack'[Len(stack')])
             /\ stack'[Len(stack')].hit = CallHit
             /\ stack'[Len(stack')].scattered = CallScatter.scattered
        /\ (pc = "ret" /\ stack # <<>>) =>
             LET f == stack[Len(stack)]
             IN  /\ r = f.scattered
                 /\ depth = f.depth - 1
                 /\ retval' = vec3_add(emitted(f.hit.mat),
                                       vec3_mul(f.hit.mat.albedo, retval))
        /\ (pc = "call" /\ depth > 0 /\ CallHit.hit /\ ~CallScatter.ok) =>
             /\ pc' = "ret"
             /\ retval' = emitted(CallHit.mat)
             /\ stack' = stack
             /\ r' = r /\ depth' = depth
      ]_vars

\* a top-level call that scattered at least once has returned light
C1_Witness ==
    /\ pc = "ret" /\ stack = <<>>
    /\ nhit >= 2 /\ nmat = 2 * nhit
    /\ retval # color(0, 0, 0)

\* C3: a call with remaining depth 0 returns black without querying the scene,
\* calling a material, drawing a random number or notifying the recorder.
C3_DepthZero ==
    [][ (pc = "call" /\ depth = 0) =>
           /\ pc' = "ret"
           /\ retval' = color(0, 0, 0)
           /\ nhit' = nhit /\ nmat' = nmat
           /\ rng' = rng
           /\ path_recorder' = path_recorder
           /\ stack' = stack
      ]_vars

\* a recorded path has used its whole budget and the call at depth 0 has returned
C3_Witness ==
    /\ pc = "ret" /\ depth = 0 /\ rec
    /\ Len(stack) = max_depth /\ nhit = max_depth
    /\ retval = color(0, 0, 0)

\* C4: for depth > 0, a call whose ray hits nothing (t_min = 0.001, t_max =
\* infinity) returns black, calls no material and makes no recursive call.
C4_MissBlack ==
    [][ (pc = "call" /\ depth > 0 /\ ~world_hit(world, r, Rat(1, 1000), infinity).hit) =>
           /\ pc' = "ret"
           /\ retval' = color(0, 0, 0)
           /\ nmat' = nmat
           /\ rng' = rng
           /\ path_recorder' = path_recorder
           /\ stack' = stack
      ]_vars

\* a scattered ray of a non-empty scene has missed
C4_Witness ==
    /\ pc = "ret" /\ depth > 0
    /\ Len(stack) >= 1 /\ nhit = Len(stack) + 1 /\ nmat = 2 * Len(stack)
    /\ retval = color(0, 0, 0)

\* the ray of an empty scene has missed
C4_WitnessEmpty ==
    /\ pc = "ret" /\ world = <<>> /\ nhit = 1

\* an upper bound of the number of steps ray_color still takes before the
\* top-level call returns to main
StepsLeft == IF pc = "call" THEN 2 * depth + 1 + Len(stack) ELSE Len(stack)

\* C5: every recursive call is made with the caller's depth minus one; a
\* top-level call started with max_depth has at most max_depth nested calls
\* that scattered, makes at most max_depth scene queries, and terminates: each
\* of its steps decreases the natural number StepsLeft, which starts at
\* 2 * max_depth + 1.
C5_Terminates ==
    /\ [](pc \in {"call", "ret"} =>
             /\ depth >= 0
             /\ depth + Len(stack) = max_depth
             /\ Len(stack) <= max_depth
             /\ nhit <= max_depth
             /\ nmat <= 2 * max_depth
             /\ StepsLeft \in 0..(2 * max_depth + 1))
    /\ [][ (pc = "call" /\ pc' = "call") =>
              /\ depth' = depth - 1
              /\ Len(stack') = Len(stack) + 1 ]_vars
    /\ [][ (pc \in {"call", "ret"} /\ pc' \in {"call", "ret"}) =>
              StepsLeft' < StepsLeft ]_vars

\* a top-level call that queried the scene max_depth times has returned to main
C5_Witness ==
    /\ pc = "sample" /\ s >= 1
    /\ nhit = max_depth /\ nmat = 2 * max_depth

\* C2: the render without a recorder, started from the random-stream state and
\* the scene of the render with the recorder, starts every sample at the same
\* random-stream state, ends it at the same state, gets the same ray_color
\* value and writes the same output stream.
C2_RecorderTransparent ==
    run = 2 =>
       /\ ~rec
       /\ Len(obs) <= Len(first.obs)
       /\ \A n \in 1..Len(obs) :
             /\ obs[n].i = first.obs[n].i /\ obs[n].j = first.obs[n].j
             /\ obs[n].rng = first.obs[n].rng
             /\ obs[n].depth = first.obs[n].depth
             /\ obs[n].done => /\ obs[n].rng_end = first.obs[n].rng_end
                               /\ obs[n].ret = first.obs[n].ret
       /\ Len(out) <= Len(first.out)
       /\ \A n \in 1..Len(out) : out[n] = first.out[n]
       /\ pc = "done" => (Len(obs) = Len(first.obs) /\ out = first.out)

\* both renders are complete, and in the first a sample run with the recorder
\* attached scattered and gathered light
C2_Witness ==
    /\ run = 2 /\ pc = "done"
    /\ first.paths > 0
    /\ \E n \in 1..Len(obs) :
          /\ first.obs[n].recorded /\ ~obs[n].recorded
          /\ first.obs[n].rng_end > first.obs[n].rng + 2
          /\ obs[n].ret # color(0, 0, 0)

\* the pixel written as the n-th pixel line: rows from image_height - 1 down
\* to 0, columns from 0 up to image_width - 1
PixelOf(n) == [i |-> (n - 1) % image_width,
               j |-> image_height - 1 - ((n - 1) \div image_width)]

\* C6: the header is written first, before any sample; then come at most
\* image_width * image_height pixel lines, exactly that many once the loop is
\* left; the n-th is the line of pixel PixelOf(n) and is written when exactly
\* samples_per_pixel ray_color calls, each started with max_depth, have
\* returned for that pixel, all of them after the previous pixel line.
C6_PixelOrder ==
    /\ pc \in {"presel", "header"} => out = <<>> /\ obs = <<>>
    /\ pc \notin {"presel", "header", "probe"} =>
          /\ Len(out) >= 1
          /\ out[1] = <<"P3", image_width, image_height, 255>>
          /\ Len(outlog) = Len(out) - 1
    /\ Len(outlog) <= image_width * image_height
    /\ pc \in {"export", "done"} => Len(outlog) = image_width * image_height
    /\ \A n \in 1..Len(outlog) :
          /\ outlog[n].i = PixelOf(n).i
          /\ outlog[n].j = PixelOf(n).j
          /\ outlog[n].nobs = n * samples_per_pixel
          /\ Len(out[n + 1]) = 3
    /\ Len(obs) <= (Len(outlog) + 1) * samples_per_pixel
    /\ \A m \in 1..Len(obs) :
          LET n == ((m - 1) \div samples_per_pixel) + 1
          IN  /\ obs[m].i = PixelOf(n).i
              /\ obs[m].j = PixelOf(n).j
              /\ obs[m].depth = max_depth
              /\ (m <= Len(outlog) * samples_per_pixel => obs[m].done)

\* the render is complete
C6_Witness ==
    /\ pc = "done"
    /\ Len(out) = 1 + image_width * image_height
    /\ Len(obs) = image_width * image_height * samples_per_pixel

\* |x| < 1e-8 for a rational x
Tiny(x) == Abs(x.n) * 100000000 < x.d

\* C7: lambertian::scatter returns true, attenuation equal to the albedo, and a
\* ray from the hit point whose direction is normal + sample, the sample being
\* a vector of length 1, or the normal when every component of that sum is
\* below 1e-8 in magnitude.
C7_LambertianScatter ==
    (probe.fn = "scatter" /\ probe.called) =>
       LET res == probe.result
           nrm == probe.rec.normal
           dir == res.scattered.dir
           sample == vec3_sub(dir, nrm)
       IN  /\ res.ok
           /\ res.attenuation = probe.mat.albedo
           /\ res.scattered.orig = probe.rec.p
           /\ \/ /\ length_squared(sample) = One
                 /\ sample = random_unit_vector(probe.xi1, probe.xi2)
                 /\ \E c \in 1..3 : ~Tiny(dir[c])
              \/ /\ dir = nrm
                 /\ \A c \in 1..3 :
                       Tiny(RAdd(nrm[c], random_unit_vector(probe.xi1, probe.xi2)[c]))

\* the sample is the opposite of the normal: the degenerate case
C7_Witness ==
    /\ probe.fn = "scatter" /\ probe.called
    /\ vec3_add(probe.rec.normal, random_unit_vector(probe.xi1, probe.xi2))
          = vec3(Zero, Zero, Zero)
    /\ probe.result.scattered.dir = probe.rec.normal

\* floor(256 * clamp(sqrt(sum / spp), 0, 0.999)): the largest m in 0..255 with
\* m * m <= 65536 * sum / spp
Quantised(sum, spp) ==
    CHOOSE m \in 0..255 :
       /\ m * m * spp * sum.d <= 65536 * sum.n
       /\ (m = 255 \/ (m + 1) * (m + 1) * spp * sum.d > 65536 * sum.n)

\* C8: for samples_per_pixel >= 1 and a non-negative sum, write_color writes
\* for each channel floor(256 * clamp(sqrt(sum / samples_per_pixel), 0, 0.999)),
\* a value of 0..255 that is 0 for a sum of 0 and 255 for a mean >= 1.
C8_Quantise ==
    (probe.fn = "write_color" /\ probe.called /\ probe.samples_per_pixel >= 1) =>
       /\ ~probe.outcome.trap
       /\ Len(probe.outcome.line) = 3
       /\ \A c \in 1..3 :
             LET sum == probe.pixel_color[c]
                 v == probe.outcome.line[c]
             IN  /\ v = Quantised(sum, probe.samples_per_pixel)
                 /\ v \in 0..255
                 /\ (sum = Zero => v = 0)
                 /\ (sum.n >= probe.samples_per_pixel * sum.d => v = 255)

\* one sample that struck the (15, 15, 15) emitter
C8_Witness ==
    /\ probe.fn = "write_color" /\ probe.called
    /\ probe.samples_per_pixel = 1
    /\ probe.pixel_color = color(15, 15, 15)
    /\ probe.outcome.line = <<255, 255, 255>>

\* C9: write_color called with samples_per_pixel <= 0 completes without an
\* error and writes one pixel line.
C9_NoErrorState ==
    (probe.fn = "write_color" /\ probe.called /\ probe.samples_per_pixel <= 0) =>
       /\ ~probe.outcome.trap
       /\ Len(probe.outcome.line) = 3

\* C10 as stated: when the OBJ file cannot be opened the call returns false
\* and writes nothing at all; the recorded paths and the pixel stream are
\* unchanged and every pixel line had been written before the call.
C10_FailureWritesNothing ==
    [][ (pc = "export" /\ pc' = "done" /\ ~export_ret') =>
           /\ files' = files
           /\ cerr' = cerr
           /\ path_recorder' = path_recorder
           /\ out' = out
           /\ Len(out) = 1 + image_width * image_height
      ]_vars

\* C10 amended: when the OBJ file cannot be opened the call returns false and
\* writes one diagnostic line to std::cerr and nothing to any file; the
\* recorded paths and the pixel stream are unchanged and every pixel line had
\* been written before the call.
C10_FailureReported ==
    [][ (pc = "export" /\ pc' = "done" /\ ~export_ret') =>
           /\ files' = files
           /\ cerr' = Append(cerr, "Failed to open file")
           /\ path_recorder' = path_recorder
           /\ out' = out
           /\ Len(out) = 1 + image_width * image_height
      ]_vars

\* the export has failed after a render that recorded paths
C10_Witness ==
    /\ pc = "done" /\ ~export_ret
    /\ Len(get_paths(path_recorder)) > 0
    /\ files = [obj |-> "absent", mtl |-> "absent"]

\* the scatter calls of a log, in order
ScatterCalls(lg) == SelectSeq(lg, LAMBDA e : e.op = "scatter")

\* sum over the bounces idx.. of emitted times the product of the earlier
\* attenuations, prod being the product up to bounce idx
RECURSIVE PathSum(_, _, _)
PathSum(calls, idx, prod) ==
    IF idx > Len(calls) THEN color(0, 0, 0)
    ELSE vec3_add(vec3_mul(prod, calls[idx].emitted),
                  IF calls[idx].ok
                  THEN PathSum(calls, idx + 1, vec3_mul(prod, calls[idx].attenuation))
                  ELSE color(0, 0, 0))

\* the number of successful scatter calls of a log
Bounces(lg) == Len(SelectSeq(lg, LAMBDA e : e.op = "scatter" /\ e.ok))

NoPathOpen ==
    \/ probe.last \in {"none", "end_path", "clear"}
    \/ probe.last = "start_path" /\ probe.refused

\* C12: for a PathRecorder constructed with max_paths >= 0, after any sequence of
\* start_path, record_vertex, end_path and clear calls the number of stored paths
\* is at most max_paths, the recorder is recording only while fewer than
\* max_paths paths are stored, and a record_vertex or end_path call made while
\* no path is open leaves the stored paths unchanged.
C12_RecorderBounded ==
    /\ [](probe.fn = "recorder" =>
            /\ path_recorder.max_paths >= 0
            /\ Len(path_recorder.paths) <= path_recorder.max_paths
            /\ path_recorder.recording => Len(path_recorder.paths) < path_recorder.max_paths)
    /\ [][(probe.fn = "recorder" /\ NoPathOpen /\ probe'.op \in {"record_vertex", "end_path"})
            => get_paths(path_recorder)' = get_paths(path_recorder)]_vars

\* a full recorder has refused a start_path and then received a record_vertex
C12_Witness ==
    /\ probe.fn = "recorder"
    /\ path_recorder.max_paths >= 1
    /\ Len(path_recorder.paths) = path_recorder.max_paths
    /\ Len(path_recorder.paths[1].vertices) >= 1
    /\ probe.last = "start_path" /\ probe.refused
    /\ probe.op = "record_vertex"

\* the vertex main records for the camera (main.cpp:160)
CameraVertex == PathVertex(lookfrom, vec3(Zero, Zero, One), color(1, 1, 1), FALSE)

\* the shape of one stored path
WellFormedPath(path) ==
    /\ path.depth = Len(path.vertices)
    /\ 1 <= Len(path.vertices) /\ Len(path.vertices) <= max_depth + 1
    /\ path.vertices[1] = CameraVertex
    /\ \A n \in 1..(Len(path.vertices) - 1) : ~path.vertices[n].is_light_source

\* C13 as stated: every stored path is well formed, and in every state of the
\* render the number of stored paths equals paths_recorded and is at most the
\* limit of main.
C13_StoredCountEqual ==
    probe.fn = "none" =>
        /\ \A n \in 1..Len(get_paths(path_recorder)) :
              WellFormedPath(get_paths(path_recorder)[n])
        /\ Len(get_paths(path_recorder)) = paths_recorded
        /\ Len(get_paths(path_recorder)) <= NumPaths

\* C13 (amended): every path stored by the render loop has depth equal to its number of
\* vertices, starts with the camera-origin vertex, has between 1 and
\* max_depth + 1 vertices and a light-source vertex only in last place;
\* start_path and end_path alternate, a path being started only when none is
\* open; between samples the number of stored paths equals paths_recorded (one
\* less while the recorded sample is being traced) and it never exceeds the
\* limit of main.
C13_StoredPaths ==
    /\ [](probe.fn = "none" =>
            /\ \A n \in 1..Len(get_paths(path_recorder)) :
                  WellFormedPath(get_paths(path_recorder)[n])
            /\ Len(get_paths(path_recorder)) <= NumPaths
            /\ paths_recorded <= NumPaths
            /\ path_recorder.recording => /\ pc \in {"call", "ret"} /\ rec
                                          /\ Len(get_paths(path_recorder)) = paths_recorded - 1
            /\ ~path_recorder.recording => /\ ~(pc \in {"call", "ret"} /\ rec)
                                           /\ Len(get_paths(path_recorder)) = paths_recorded)
    /\ [][probe.fn = "none" =>
            /\ (pc = "sample" /\ pc' = "call" /\ rec') =>
                  /\ ~path_recorder.recording /\ path_recorder'.recording
                  /\ path_recorder'.current_path.vertices = <<CameraVertex>>
                  /\ paths_recorded' = paths_recorded + 1
            /\ (pc = "ret" /\ pc' = "sample" /\ rec) =>
                  /\ path_recorder.recording /\ ~path_recorder'.recording
                  /\ Len(get_paths(path_recorder)') = Len(get_paths(path_recorder)) + 1
            /\ path_recorder'.recording # path_recorder.recording =>
                  \/ pc = "sample" /\ pc' = "call" /\ rec'
                  \/ pc = "ret" /\ pc' = "sample" /\ rec
                  \/ pc = "done"
          ]_vars

\* the render has stored as many paths as main allows, one of them ending on a
\* light after a scattering bounce, one of them of full length
C13_Witness ==
    /\ probe.fn = "none"
    /\ pc = "export"
    /\ Len(get_paths(path_recorder)) = NumPaths
    /\ paths_recorded = NumPaths
    /\ \E n \in 1..NumPaths :
          LET vs == get_paths(path_recorder)[n].vertices
          IN  Len(vs) >= 3 /\ vs[Len(vs)].is_light_source
    /\ \E n \in 1..NumPaths :
          Len(get_paths(path_recorder)[n].vertices) = max_depth + 1

====
